---------------------------- MODULE Spec2Model ----------------------------
(***************************************************************************)
(* covfmt: conversion of a Go cover profile into an lcov report            *)
(* (src/main.go).  Text is modelled byte by byte: a string is a sequence   *)
(* of one-character strings, so that splitting, prefix stripping, integer  *)
(* parsing and formatting are computed the way the code computes them.     *)
(***************************************************************************)
EXTENDS Integers, Sequences, FiniteSets, TLC

VARIABLES
    gopath,      \* the package layout build.Import sees: fragment -> directory
    fsDirs,      \* the directories that exist on disk (the VCS marker ones)
    fsFiles,     \* the regular files that exist on disk
    pkgCache,    \* var pkgCache: directory fragment -> cacheResult
    imports,     \* the build.Import calls made so far, in order
    log,         \* the findFile calls made so far: reference and outcome
    line,        \* the text handed to parseCoverageLine
    parsed,      \* what parseCoverageLine did with it
    name,        \* the path handed to the repository root locator
    located,     \* what findRepositoryRoot returned
    short,       \* what getCoverallsSourceFileName returned
    input,       \* the lines the scanner has not delivered yet
    scanned,     \* the lines delivered so far, each with what the parser returned
    blocks,      \* the grouping: resolved path -> sequence of blocks
    todo,        \* lcov: the files the range loop has not visited yet
    cur,         \* writeLcovRecord: filePath
    bi,          \* writeLcovRecord: index of the block the outer loop is at
    i,           \* writeLcovRecord: the line variable of the inner loop
    total,       \* writeLcovRecord: total
    covered,     \* writeLcovRecord: covered
    buf,         \* the bufio.Writer's buffer
    sink,        \* the bytes the underlying io.Writer has received
    sinkWrites,  \* how often the underlying io.Writer has been written to
    flushes,     \* how often lcov's own w.Flush() has run
    pc           \* where the process is

vars == <<gopath, fsDirs, fsFiles, pkgCache, imports, log, line, parsed, name,
          located, short, input, scanned, blocks,
          todo, cur, bi, i, total, covered, buf, sink,
          sinkWrites, flushes, pc>>

EnvVars == <<gopath, fsDirs, fsFiles>>
ResolverVars == <<pkgCache, imports, log>>
ParserVars == <<line, parsed>>
LocatorVars == <<name, located, short>>
ScanVars == <<input, scanned, blocks>>
EmitVars == <<todo, cur, bi, i, total, covered, buf, sink, sinkWrites, flushes>>

----------------------------------------------------------------------------
(* Bounds of the model.                                                    *)

\* Go's int has 64 bits; the model keeps the arithmetic and scales the width.
IntBits == 5
\* The longest text tried in one numeric field of an input line.
MaxFieldLen == 2
\* The deepest directory of the modelled directory tree.
MaxDepth == 2
\* The most VCS marker directories present in the tree at once.
MaxMarkers == 2
\* The most findFile calls in one run of the resolver.
MaxCalls == 4
\* The most lines of one input stream.
MaxLines == 3
\* The largest line number of a block handed to the emitter.
MaxLine == 2
\* The most blocks of one grouping handed to the emitter.
MaxBlocks == 2
\* bufio's buffer size (4096 in the library), scaled.
BufSize == 48

----------------------------------------------------------------------------
(* Strings.                                                                *)

RECURSIVE Pow2(_)
Pow2(n) == IF n = 0 THEN 1 ELSE 2 * Pow2(n - 1)

MaxInt == Pow2(IntBits - 1) - 1
MinInt == 0 - Pow2(IntBits - 1)
MaxUint == Pow2(IntBits) - 1

\* Two's complement wrap-around of int arithmetic.
WrapInt(n) == ((n - MinInt) % Pow2(IntBits)) + MinInt

Drop(s, n) == SubSeq(s, n + 1, Len(s))
Take(s, n) == SubSeq(s, 1, n)

\* strings.HasPrefix
HasPrefix(s, p) == Len(s) >= Len(p) /\ Take(s, Len(p)) = p

\* strings.TrimPrefix
TrimPrefix(s, p) == IF HasPrefix(s, p) THEN Drop(s, Len(p)) ELSE s

\* strings.Split(s, sep) for a one-byte separator: the segments between the
\* separators, one more than there are separators.
Split(s, sep) ==
    LET at == {n \in 1..Len(s) : s[n] = sep}
        cut(j) == IF j = 0 THEN 0
                  ELSE IF j > Cardinality(at) THEN Len(s) + 1
                  ELSE CHOOSE n \in at : Cardinality({m \in at : m < n}) = j - 1
    IN  [j \in 1..(Cardinality(at) + 1) |-> SubSeq(s, cut(j - 1) + 1, cut(j) - 1)]

\* strings.LastIndex of the path separator (0: none).
RECURSIVE LastSlash(_, _)
LastSlash(s, n) ==
    IF n = 0 THEN 0 ELSE IF s[n] = "/" THEN n ELSE LastSlash(s, n - 1)

Digits == <<"0", "1", "2", "3", "4", "5", "6", "7", "8", "9">>
IsDigit(c) == \E d \in 1..10 : Digits[d] = c
DigitVal(c) == (CHOOSE d \in 1..10 : Digits[d] = c) - 1

\* strconv.Itoa
RECURSIVE FormatNat(_)
FormatNat(n) ==
    IF n < 10 THEN <<Digits[n + 1]>>
    ELSE Append(FormatNat(n \div 10), Digits[(n % 10) + 1])

Itoa(n) == IF n < 0 THEN <<"-">> \o FormatNat(0 - n) ELSE FormatNat(n)

\* strconv.ParseUint(s, 10, 0) on a non-empty s: digit by digit; a byte that is
\* no digit is a syntax error (value 0), a value beyond the unsigned range is a
\* range error (value MaxUint), whichever the scan meets first.
RECURSIVE ParseUintFrom(_, _)
ParseUintFrom(s, n) ==
    IF s = <<>> THEN [val |-> n, err |-> "nil"]
    ELSE IF ~IsDigit(Head(s)) THEN [val |-> 0, err |-> "syntax"]
    ELSE IF n >= (MaxUint \div 10) + 1 THEN [val |-> MaxUint, err |-> "range"]
    ELSE IF n * 10 + DigitVal(Head(s)) > MaxUint
         THEN [val |-> MaxUint, err |-> "range"]
    ELSE ParseUintFrom(Tail(s), n * 10 + DigitVal(Head(s)))

AtoiZeroOnError(s) ==
    LET neg == s # <<>> /\ Head(s) = "-"
        body == IF s # <<>> /\ Head(s) \in {"+", "-"} THEN Tail(s) ELSE s
        un == IF body = <<>> THEN [val |-> 0, err |-> "syntax"]
              ELSE ParseUintFrom(body, 0)
    IN  IF un.err # "nil" THEN 0
        ELSE IF ~neg /\ un.val >= MaxInt + 1 THEN 0
        ELSE IF neg /\ un.val > MaxInt + 1 THEN 0
        ELSE IF neg THEN 0 - un.val ELSE un.val

\* strconv.Atoi with its error dropped (x, _ = strconv.Atoi(s)): the value
\* Atoi returns beside the error.  A syntax error comes with 0, a range error
\* with the nearest bound of int.
Atoi(s) ==
    LET neg == s # <<>> /\ Head(s) = "-"
        body == IF s # <<>> /\ Head(s) \in {"+", "-"} THEN Tail(s) ELSE s
        un == IF body = <<>> THEN [val |-> 0, err |-> "syntax"]
              ELSE ParseUintFrom(body, 0)
    IN  IF un.err = "syntax" THEN 0
        ELSE IF ~neg /\ un.val >= MaxInt + 1 THEN MaxInt
        ELSE IF neg /\ un.val > MaxInt + 1 THEN MinInt
        ELSE IF neg THEN 0 - un.val ELSE un.val

----------------------------------------------------------------------------
(* Paths.                                                                  *)

Sep == <<"/">>

\* filepath.Split: the directory with its trailing separator, and the file.
FilepathSplit(p) ==
    LET k == LastSlash(p, Len(p)) IN [dir |-> Take(p, k), file |-> Drop(p, k)]

\* filepath.Clean of a path that ends in separators: they go, the root stays.
RECURSIVE StripSlashes(_)
StripSlashes(p) ==
    IF Len(p) > 1 /\ p[Len(p)] = "/" THEN StripSlashes(Take(p, Len(p) - 1))
    ELSE p

\* filepath.Dir: all but the last element, cleaned; "." when nothing is left.
FilepathDir(p) ==
    LET d == StripSlashes(Take(p, LastSlash(p, Len(p))))
    IN  IF d = <<>> THEN <<".">> ELSE d

\* filepath.Join of a clean directory and a bare name.
FilepathJoin(d, f) ==
    IF f = <<>> THEN d
    ELSE IF d = <<>> THEN f
    ELSE IF d[Len(d)] = "/" THEN d \o f
    ELSE d \o Sep \o f

vscDirs == << <<".", "g", "i", "t">>, <<".", "h", "g">>,
              <<".", "b", "z", "r">>, <<".", "s", "v", "n">> >>

----------------------------------------------------------------------------
(* The path resolver.                                                      *)

Nil == <<>>
NotFound == <<>>

\* build.Import(dir, ".", build.FindOnly): the directory of the package, or
\* an error when the layout holds no such package.
BuildImport(dir) ==
    IF dir \in DOMAIN gopath /\ gopath[dir] # NotFound
    THEN [Dir |-> gopath[dir], err |-> Nil]
    ELSE [Dir |-> <<>>, err |-> <<"import", dir>>]

\* A resolver that remembers only what it found: a failure is looked up again.
findFileNoNegativeCache(file, cache) ==
    LET sp == FilepathSplit(file)
        pkg == BuildImport(sp.dir)
        result == IF pkg.err # Nil
                  THEN [file |-> <<>>, err |-> <<"can't find", sp.file, pkg.err>>]
                  ELSE [file |-> FilepathJoin(pkg.Dir, sp.file), err |-> Nil]
    IN  IF sp.dir \in DOMAIN cache
        THEN [file |-> cache[sp.dir].file, err |-> cache[sp.dir].err,
              cache |-> cache, imported |-> <<>>]
        ELSE [file |-> result.file, err |-> result.err,
              cache |-> IF pkg.err # Nil THEN cache
                        ELSE cache @@ (sp.dir :> result),
              imported |-> <<sp.dir>>]

\* findFile: what it returns (file, err), the cache it leaves, and the
\* build.Import call it made (none on a cache hit).
findFile(file, cache) ==
    LET sp == FilepathSplit(file)
        pkg == BuildImport(sp.dir)
        result == IF pkg.err # Nil
                  THEN [file |-> <<>>, err |-> <<"can't find", sp.file, pkg.err>>]
                  ELSE [file |-> FilepathJoin(pkg.Dir, sp.file), err |-> Nil]
    IN  IF sp.dir \in DOMAIN cache
        THEN [file |-> cache[sp.dir].file, err |-> cache[sp.dir].err,
              cache |-> cache, imported |-> <<>>]
        ELSE [file |-> result.file, err |-> result.err,
              cache |-> cache @@ (sp.dir :> result),
              imported |-> <<sp.dir>>]

----------------------------------------------------------------------------
(* The repository root locator.                                            *)

\* os.Stat(filepath.Join(dir, vcsdir)) succeeds and names a directory.
IsVcsDir(dir, k) == FilepathJoin(dir, vscDirs[k]) \in fsDirs

\* A locator that knows only the first marker name.
RECURSIVE findRepositoryRootGitOnly(_)
findRepositoryRootGitOnly(dir) ==
    IF IsVcsDir(dir, 1)
    THEN [root |-> dir, ok |-> TRUE, calls |-> <<dir>>]
    ELSE LET nextdir == FilepathDir(dir)
         IN  IF nextdir = dir
             THEN [root |-> <<>>, ok |-> FALSE, calls |-> <<dir>>]
             ELSE LET r == findRepositoryRootGitOnly(nextdir)
                  IN  [r EXCEPT !.calls = <<dir>> \o @]

\* findRepositoryRoot: what it returns (root, ok), and the dir argument of each
\* call of the recursion, outermost first.
RECURSIVE findRepositoryRoot(_)
findRepositoryRoot(dir) ==
    IF \E k \in 1..Len(vscDirs) : IsVcsDir(dir, k)
    THEN [root |-> dir, ok |-> TRUE, calls |-> <<dir>>]
    ELSE LET nextdir == FilepathDir(dir)
         IN  IF nextdir = dir
             THEN [root |-> <<>>, ok |-> FALSE, calls |-> <<dir>>]
             ELSE LET r == findRepositoryRoot(nextdir)
                  IN  [r EXCEPT !.calls = <<dir>> \o @]

getCoverallsSourceFileName(nm) ==
    LET r == findRepositoryRoot(nm)
    IN  IF ~r.ok THEN nm ELSE TrimPrefix(nm, r.root \o Sep)

----------------------------------------------------------------------------
(* The record parser.                                                      *)

ModePrefix == <<"m", "o", "d", "e", ":">>

NoBlock == <<>>

\* parseCoverageLine: what it returns (f, b, ok) as outcome "ok" or "rejected",
\* or outcome "panic" when an index expression is out of range; the cache
\* findFile leaves and the build.Import call it made.
parseCoverageLine(ln, cache) ==
    LET reject == [outcome |-> "rejected", file |-> <<>>, block |-> NoBlock,
                   cache |-> cache, imported |-> <<>>]
        path == Split(ln, ":")
        parts == Split(path[2], " ")
        sections == Split(parts[1], ",")
        start == Split(sections[1], ".")
        end == Split(sections[2], ".")
        f == findFile(path[1], cache)
    IN  IF HasPrefix(ln, ModePrefix) THEN reject
        ELSE IF Len(path) # 2 THEN reject
        ELSE IF Len(parts) # 3 THEN reject
        ELSE IF Len(sections) # 2 THEN reject
        ELSE IF Len(start) < 2 \/ Len(end) < 2
             THEN [reject EXCEPT !.outcome = "panic"]
        ELSE IF f.err # Nil
             THEN [reject EXCEPT !.cache = f.cache, !.imported = f.imported]
        ELSE [outcome |-> "ok",
              file |-> getCoverallsSourceFileName(f.file),
              block |-> [startLine |-> Atoi(start[1]),
                         startChar |-> Atoi(start[2]),
                         endLine |-> Atoi(end[1]),
                         endChar |-> Atoi(end[2]),
                         statements |-> Atoi(parts[2]),
                         covered |-> Atoi(parts[3])],
              cache |-> f.cache, imported |-> f.imported]

----------------------------------------------------------------------------
(* The report emitter.                                                     *)

NL == <<"\n">>
TN == <<"T", "N", ":">>
SF == <<"S", "F", ":">>
DA == <<"D", "A", ":">>
LF == <<"L", "F", ":">>
LH == <<"L", "H", ":">>
EndOfRecord == <<"e", "n", "d", "_", "o", "f", "_", "r", "e", "c", "o", "r", "d">>

\* A writer without a buffer: every string goes straight to the sink.
WriteStringUnbuffered(w, s) ==
    [buf |-> w.buf, sink |-> w.sink \o s, writes |-> w.writes + 1]

\* (*bufio.Writer).WriteString on w = (buf, sink, writes): while the string does
\* not fit, the buffer is filled up and written to the sink; the rest is kept.
\* No string lcov writes here is longer than the buffer.
RECURSIVE WriteString(_, _)
WriteString(w, s) ==
    LET avail == BufSize - Len(w.buf)
    IN  IF Len(s) > avail
        THEN WriteString([buf |-> <<>>,
                          sink |-> w.sink \o w.buf \o Take(s, avail),
                          writes |-> w.writes + 1],
                         Drop(s, avail))
        ELSE [w EXCEPT !.buf = w.buf \o s]

\* (*bufio.Writer).Flush: the buffer, when it holds anything, goes to the sink.
Flush(w) ==
    IF w.buf = <<>> THEN w
    ELSE [buf |-> <<>>, sink |-> w.sink \o w.buf, writes |-> w.writes + 1]

Writer == [buf |-> buf, sink |-> sink, writes |-> sinkWrites]

SetWriter(w) == buf' = w.buf /\ sink' = w.sink /\ sinkWrites' = w.writes

LoopCondExclusive(v, b) == v < b.endLine

\* The condition of the inner loop: i <= b.endLine.
LoopCond(v, b) == v <= b.endLine

IsHitOrMiss(b) == b.covered >= 0

\* The condition under which a line counts as covered: b.covered > 0.
IsHit(b) == b.covered > 0

\* lcov: the range loop picks the next file of the map, in no fixed order.
LcovRange ==
    /\ pc = "range"
    /\ \E f \in todo :
           /\ cur' = f
           /\ todo' = todo \ {f}
    /\ pc' = "TN"
    /\ UNCHANGED <<EnvVars, ResolverVars, ParserVars, LocatorVars, ScanVars,
                   bi, i, total, covered, buf, sink, sinkWrites, flushes>>

\* lcov: after the loop, w.Flush().
LcovFlush ==
    /\ pc = "range"
    /\ todo = {}
    /\ SetWriter(Flush(Writer))
    /\ flushes' = flushes + 1
    /\ pc' = "done"
    /\ UNCHANGED <<EnvVars, ResolverVars, ParserVars, LocatorVars, ScanVars,
                   todo, cur, bi, i, total, covered>>

WriteTN ==
    /\ pc = "TN"
    /\ SetWriter(WriteString(Writer, TN \o NL))
    /\ pc' = "SF"
    /\ UNCHANGED <<EnvVars, ResolverVars, ParserVars, LocatorVars, ScanVars,
                   todo, cur, bi, i, total, covered, flushes>>

WriteSF ==
    /\ pc = "SF"
    /\ SetWriter(WriteString(Writer, SF \o cur \o NL))
    /\ total' = 0
    /\ covered' = 0
    /\ bi' = 1
    /\ pc' = "blocks"
    /\ UNCHANGED <<EnvVars, ResolverVars, ParserVars, LocatorVars, ScanVars,
                   todo, cur, i, flushes>>

\* for _, b := range blocks: the next block, or the end of the loop.
BlockLoop ==
    /\ pc = "blocks"
    /\ IF bi <= Len(blocks[cur])
       THEN i' = blocks[cur][bi].startLine /\ pc' = "lines"
       ELSE i' = i /\ pc' = "LF"
    /\ UNCHANGED <<EnvVars, ResolverVars, ParserVars, LocatorVars, ScanVars,
                   todo, cur, bi, total, covered, buf, sink, sinkWrites, flushes>>

\* for i := b.startLine; i <= b.endLine; i++: one turn, or the end of the loop.
LineLoop ==
    /\ pc = "lines"
    /\ LET b == blocks[cur][bi]
       IN  IF LoopCond(i, b)
           THEN /\ total' = WrapInt(total + 1)
                /\ covered' = IF IsHit(b) THEN WrapInt(covered + 1) ELSE covered
                /\ SetWriter(WriteString(Writer,
                        DA \o Itoa(i) \o <<",">> \o Itoa(b.covered) \o NL))
                /\ i' = WrapInt(i + 1)
                /\ UNCHANGED <<bi, pc>>
           ELSE /\ bi' = bi + 1
                /\ pc' = "blocks"
                /\ UNCHANGED <<i, total, covered, buf, sink, sinkWrites>>
    /\ UNCHANGED <<EnvVars, ResolverVars, ParserVars, LocatorVars, ScanVars,
                   todo, cur, flushes>>

WriteLF ==
    /\ pc = "LF"
    /\ SetWriter(WriteString(Writer, LF \o Itoa(total) \o NL))
    /\ pc' = "LH"
    /\ UNCHANGED <<EnvVars, ResolverVars, ParserVars, LocatorVars, ScanVars,
                   todo, cur, bi, i, total, covered, flushes>>

WriteLH ==
    /\ pc = "LH"
    /\ SetWriter(WriteString(Writer, LH \o Itoa(covered) \o NL))
    /\ pc' = "end"
    /\ UNCHANGED <<EnvVars, ResolverVars, ParserVars, LocatorVars, ScanVars,
                   todo, cur, bi, i, total, covered, flushes>>

WriteEnd ==
    /\ pc = "end"
    /\ SetWriter(WriteString(Writer, EndOfRecord \o NL))
    /\ pc' = "range"
    /\ UNCHANGED <<EnvVars, ResolverVars, ParserVars, LocatorVars, ScanVars,
                   todo, cur, bi, i, total, covered, flushes>>

writeLcovRecord ==
    WriteTN \/ WriteSF \/ BlockLoop \/ LineLoop \/ WriteLF \/ WriteLH \/ WriteEnd

lcov == LcovRange \/ writeLcovRecord \/ LcovFlush

----------------------------------------------------------------------------
(* Values of the variables an operation does not use.                      *)

ResolverIdle == pkgCache = <<>> /\ imports = <<>> /\ log = <<>>
ParserIdle == line = <<>> /\ parsed = <<>>
LocatorIdle == name = <<>> /\ located = <<>> /\ short = <<>>
ScanIdle == input = <<>> /\ scanned = <<>> /\ blocks = <<>>
EmitIdle ==
    /\ todo = {} /\ cur = <<>> /\ bi = 0 /\ i = 0 /\ total = 0 /\ covered = 0
    /\ buf = <<>> /\ sink = <<>> /\ sinkWrites = 0 /\ flushes = 0

\* The sets of at most k elements of X.
RECURSIVE KSubsets(_, _)
KSubsets(X, k) ==
    IF k = 0 THEN {{}}
    ELSE LET P == KSubsets(X, k - 1) IN P \cup {S \cup {x} : S \in P, x \in X}

----------------------------------------------------------------------------
(* SpecRoot: the repository root locator on a directory tree.              *)

Names == {"a", "b"}

RECURSIVE DirsAt(_)
DirsAt(n) ==
    IF n = 0 THEN {Sep}
    ELSE {FilepathJoin(d, <<c>>) : d \in DirsAt(n - 1), c \in Names}

AllDirs == UNION {DirsAt(n) : n \in 0..MaxDepth}
\* The paths looked up: a file in each directory of one branch of the tree.
FilePaths ==
    {FilepathJoin(d, <<"f">>) : d \in {e \in AllDirs : \A n \in 1..Len(e) : e[n] # "b"}}
MarkerPaths == {FilepathJoin(d, vscDirs[k]) : d \in AllDirs, k \in 1..Len(vscDirs)}
\* A .git that is a regular file, as in a linked worktree.
GitFile == <<"/", "a", "/", ".", "g", "i", "t">>

InitRoot ==
    /\ gopath = <<>>
    /\ fsDirs \in KSubsets(MarkerPaths, MaxMarkers)
    /\ fsFiles \in {{}, {GitFile} \ fsDirs}
    /\ name \in FilePaths
    /\ located = <<>> /\ short = <<>>
    /\ ResolverIdle /\ ParserIdle /\ ScanIdle /\ EmitIdle
    /\ pc = "locate"

\* findRepositoryRoot on the directory portion of the path.
LocateRoot ==
    /\ pc = "locate"
    /\ located' = findRepositoryRoot(FilepathDir(name))
    /\ pc' = "shorten"
    /\ UNCHANGED <<EnvVars, ResolverVars, ParserVars, ScanVars, EmitVars, name, short>>

\* getCoverallsSourceFileName on the path.
Shorten ==
    /\ pc = "shorten"
    /\ short' = getCoverallsSourceFileName(name)
    /\ pc' = "shortened"
    /\ UNCHANGED <<EnvVars, ResolverVars, ParserVars, ScanVars, EmitVars, name, located>>

NextRoot == LocateRoot \/ Shorten

SpecRoot == InitRoot /\ [][NextRoot]_vars

\* The directory tree as the claims speak of it.
IsAncestorOrSelf(a, d) == a = d \/ a = Sep \/ HasPrefix(d, a \o Sep)
Chain(d) == {a \in AllDirs : IsAncestorOrSelf(a, d)}
Marked(d) ==
    \E k \in 1..Len(vscDirs) :
        ((IF d = Sep THEN d ELSE d \o Sep) \o vscDirs[k]) \in fsDirs
MarkedChain(d) == {a \in Chain(d) : Marked(a)}
Nearest(S) == CHOOSE a \in S : \A b \in S : Len(b) <= Len(a)
NoRepeats(s) == \A m, n \in 1..Len(s) : s[m] = s[n] => m = n

\* C10: findRepositoryRoot ends having visited each directory of the chain from
\* the start directory to the filesystem root at most once, and returns the
\* marked directory of the chain nearest to the start, or ("", false) when the
\* chain holds none.
C10_FindRootInnermost ==
    pc \in {"shorten", "shortened"} =>
        LET start == FilepathDir(name) IN
        /\ NoRepeats(located.calls)
        /\ \A n \in 1..Len(located.calls) : located.calls[n] \in Chain(start)
        /\ IF MarkedChain(start) # {}
           THEN located.ok /\ located.root = Nearest(MarkedChain(start))
           ELSE ~located.ok /\ located.root = <<>>

C10_Witness ==
    /\ pc = "shorten"
    /\ located.ok
    /\ Len(located.calls) = 2
    /\ FilepathJoin(located.root, vscDirs[1]) \notin fsDirs
    /\ \E a \in MarkedChain(FilepathDir(name)) : a # located.root

\* C9: getCoverallsSourceFileName returns the path relative to the nearest marked
\* ancestor directory, the filesystem root included, and the path itself when no
\* ancestor is marked.
C9_ShortenRelative ==
    pc = "shortened" =>
        LET up == MarkedChain(FilepathDir(name)) IN
        IF up = {} THEN short = name
        ELSE LET r == Nearest(up)
             IN  /\ Head(short) # "/"
                 /\ (IF r = Sep THEN r ELSE r \o Sep) \o short = name

----------------------------------------------------------------------------
(* SpecResolve: a run of findFile calls against a package layout.          *)

Fragments == {<<"p", "/">>, <<"q", "/">>}
PkgDirs == {<<"/", "a">>, <<"/", "b">>}
Refs == {d \o <<f>> : d \in Fragments \cup {<<>>}, f \in Names}

InitResolve ==
    /\ gopath \in [Fragments -> PkgDirs \cup {NotFound}]
    /\ fsDirs = {} /\ fsFiles = {}
    /\ ResolverIdle /\ ParserIdle /\ LocatorIdle /\ ScanIdle /\ EmitIdle
    /\ pc = "resolve"

Resolve(ref) ==
    /\ pc = "resolve"
    /\ Len(log) < MaxCalls
    /\ LET r == findFile(ref, pkgCache)
       IN  /\ pkgCache' = r.cache
           /\ imports' = imports \o r.imported
           /\ log' = Append(log, [ref |-> ref, file |-> r.file, err |-> r.err])
    /\ UNCHANGED <<EnvVars, ParserVars, LocatorVars, ScanVars, EmitVars, pc>>

NextResolve == \E ref \in Refs : Resolve(ref)

SpecResolve == InitResolve /\ [][NextResolve]_vars

FragmentOf(ref) == FilepathSplit(ref).dir

\* C3: a successful resolve returns the directory of the reference's package
\* joined with the reference's own file name, whatever was resolved before; two
\* references to different files of one package get two different paths.
C3_OwnFileName ==
    \A n \in 1..Len(log) :
        log[n].err = Nil =>
            /\ log[n].file = gopath[FragmentOf(log[n].ref)] \o Sep
                                \o FilepathSplit(log[n].ref).file
            /\ \A m \in 1..Len(log) :
                   (/\ log[m].err = Nil
                    /\ FragmentOf(log[m].ref) = FragmentOf(log[n].ref)
                    /\ log[m].ref # log[n].ref)
                       => log[m].file # log[n].file

\* C4: build.Import runs at most once per directory fragment; a later resolve of
\* a fragment returns what the first one returned, path or error, without a
\* lookup; a cache entry once written stays as it is.
C4_OneLookupPerFragment ==
    /\ [](/\ NoRepeats(imports)
          /\ \A m, n \in 1..Len(log) :
                 FragmentOf(log[m].ref) = FragmentOf(log[n].ref)
                     => log[m].file = log[n].file /\ log[m].err = log[n].err)
    /\ [][/\ \A d \in DOMAIN pkgCache :
                 d \in DOMAIN pkgCache' /\ pkgCache'[d] = pkgCache[d]
          /\ \A ref \in Refs :
                 (Len(log') > Len(log) /\ log'[Len(log')].ref = ref
                     /\ FragmentOf(ref) \in DOMAIN pkgCache)
                     => imports' = imports]_vars

C4_Witness ==
    /\ Len(log) = 4
    /\ log[1].err # Nil /\ log[2].err # Nil
    /\ FragmentOf(log[1].ref) = FragmentOf(log[2].ref)
    /\ log[3].err = Nil /\ log[4].err = Nil
    /\ FragmentOf(log[3].ref) = FragmentOf(log[4].ref)
    /\ log[3].ref # log[4].ref
    /\ Len(imports) = 2

----------------------------------------------------------------------------
(* SpecParse: parseCoverageLine on one line of text.                       *)

Concat(ss) == 
    LET RECURSIVE Cat(_)
        Cat(n) == IF n = 0 THEN <<>> ELSE Cat(n - 1) \o ss[n]
    IN  Cat(Len(ss))

FieldChars == {"0", "1", "9", "-", "+", "x", ".", ",", " ", ":"}

RECURSIVE TextsUpTo(_)
TextsUpTo(n) ==
    IF n = 0 THEN {<<>>}
    ELSE LET T == TextsUpTo(n - 1)
         IN  T \cup {Append(t, c) : t \in {u \in T : Len(u) = n - 1}, c \in FieldChars}

FieldTexts == TextsUpTo(MaxFieldLen)

\* ref:f1.f2,f3.f4 f5 f6 as its thirteen pieces.
Pieces(ref, fs) ==
    <<ref, <<":">>, fs[1], <<".">>, fs[2], <<",">>, fs[3], <<".">>, fs[4],
      <<" ">>, fs[5], <<" ">>, fs[6]>>

Ones == [k \in 1..6 |-> <<"1">>]

LineRefs == {<<"p", "/", "a">>, <<"q", "/", "a">>}

\* Lines with one field, or every field, replaced by an arbitrary text; lines
\* with one piece missing; header lines.
Lines ==
    LET oneField == {Concat(Pieces(ref, [Ones EXCEPT ![k] = t])) :
                        ref \in LineRefs, k \in 1..6, t \in FieldTexts}
        allFields == {Concat(Pieces(ref, [k \in 1..6 |-> t])) :
                        ref \in LineRefs, t \in FieldTexts}
        onePieceLess == {Concat([Pieces(ref, Ones) EXCEPT ![k] = <<>>]) :
                        ref \in LineRefs, k \in 1..13}
        header == {ModePrefix \o <<" ", "s", "e", "t">>,
                   ModePrefix \o Concat(Pieces(<<>>, Ones))}
    IN  oneField \cup allFields \cup onePieceLess \cup header

\* A layout with two packages p and r, and no package q.
SampleGopath ==
    (<<"p", "/">> :> <<"/", "a">>) @@ (<<"r", "/">> :> <<"/", "b">>)
        @@ (<<"q", "/">> :> NotFound)

InitParse ==
    /\ gopath = SampleGopath
    /\ fsDirs \in {{}, {<<"/", "a", "/", ".", "g", "i", "t">>}}
    /\ fsFiles = {}
    /\ line \in Lines
    /\ parsed = <<>>
    /\ ResolverIdle /\ LocatorIdle /\ ScanIdle /\ EmitIdle
    /\ pc = "parse"

ParseLine ==
    /\ pc = "parse"
    /\ LET r == parseCoverageLine(line, pkgCache)
       IN  /\ parsed' = [outcome |-> r.outcome, file |-> r.file, block |-> r.block]
           /\ pkgCache' = r.cache
           /\ imports' = imports \o r.imported
           /\ pc' = IF r.outcome = "panic" THEN "panicked" ELSE "parsed"
    /\ UNCHANGED <<EnvVars, LocatorVars, ScanVars, EmitVars, line, log>>

NextParse == ParseLine

SpecParse == InitParse /\ [][NextParse]_vars

\* The grammar <ref>:<l>.<c>,<l>.<c> <n> <n> as the claims speak of it.
Count(s, c) == Cardinality({n \in 1..Len(s) : s[n] = c})
First(s, c) == CHOOSE n \in 1..Len(s) : s[n] = c /\ \A m \in 1..(n - 1) : s[m] # c
Before(s, c) == Take(s, First(s, c) - 1)
After(s, c) == Drop(s, First(s, c))

ColonOK(ln) == Count(ln, ":") = 1
SpacesOK(ln) == Count(After(ln, ":"), " ") = 2
RangeOf(ln) == Before(After(ln, ":"), " ")
CommaOK(ln) == Count(RangeOf(ln), ",") = 1
PeriodsOK(ln) ==
    /\ Count(Before(RangeOf(ln), ","), ".") = 1
    /\ Count(After(RangeOf(ln), ","), ".") = 1

WellFormed(ln) ==
    /\ ~HasPrefix(ln, ModePrefix)
    /\ ColonOK(ln) /\ SpacesOK(ln) /\ CommaOK(ln) /\ PeriodsOK(ln)

\* The six numeric fields of a well-formed line, as written.
FieldText(ln, fld) ==
    LET rest == After(ln, ":")
        start == Before(RangeOf(ln), ",")
        end == After(RangeOf(ln), ",")
    IN  CASE fld = "startLine" -> Before(start, ".")
          [] fld = "startChar" -> After(start, ".")
          [] fld = "endLine" -> Before(end, ".")
          [] fld = "endChar" -> After(end, ".")
          [] fld = "statements" -> Before(After(rest, " "), " ")
          [] fld = "covered" -> After(After(rest, " "), " ")

FieldNames == {"startLine", "startChar", "endLine", "endChar", "statements", "covered"}

\* C5: parseCoverageLine returns for every line, and a segment count mismatch
\* at any split step, the split of start and end on the period included, gives
\* ok=false; no line aborts the process.
C5_MalformedRejected ==
    pc # "parse" =>
        /\ parsed.outcome # "panic"
        /\ (/\ ~HasPrefix(line, ModePrefix)
            /\ ~(ColonOK(line) /\ SpacesOK(line) /\ CommaOK(line) /\ PeriodsOK(line)))
               => parsed.outcome = "rejected"

\* A numeral: an optional sign and one or more digits.
Negative(t) == t # <<>> /\ Head(t) = "-"
Unsigned(t) == IF t # <<>> /\ Head(t) \in {"+", "-"} THEN Tail(t) ELSE t
AllDigits(t) == \A n \in 1..Len(t) : IsDigit(t[n])
IsNumeral(t) == Unsigned(t) # <<>> /\ AllDigits(Unsigned(t))

RECURSIVE StripZeros(_)
StripZeros(d) == IF Len(d) > 1 /\ Head(d) = "0" THEN StripZeros(Tail(d)) ELSE d

\* Text t is the integer v as written: formatting v gives t back, up to a plus
\* sign, leading zeros and the sign of zero.
Writes(t, v) ==
    /\ IsNumeral(t)
    /\ StripZeros(Unsigned(t)) = FormatNat(IF v < 0 THEN 0 - v ELSE v)
    /\ (v < 0 <=> (Negative(t) /\ StripZeros(Unsigned(t)) # <<"0">>))

InIntRange(t) == \E v \in MinInt..MaxInt : Writes(t, v)

\* The digits a text starts with, after its sign.
RECURSIVE DigitRun(_)
DigitRun(t) ==
    IF t # <<>> /\ IsDigit(Head(t)) THEN <<Head(t)>> \o DigitRun(Tail(t)) ELSE <<>>

\* The text is a numeral beyond the range of int, or starts with digits that
\* are already beyond the range of the unsigned scan.
Overflows(t) ==
    /\ ~InIntRange(t)
    /\ DigitRun(Unsigned(t)) # <<>>
    /\ \/ IsNumeral(t)
       \/ ~\E n \in 0..MaxUint : FormatNat(n) = StripZeros(DigitRun(Unsigned(t)))

Resolvable(ln) ==
    LET d == FragmentOf(Before(ln, ":")) IN d \in DOMAIN gopath /\ gopath[d] # NotFound

\* C6 as stated: on a well-formed line a field that does not parse as an
\* integer (empty, not a numeral, or out of range) is stored as 0, a field that
\* parses is stored with its written value, and the line is accepted.
C6_ZeroOnAnyFailure ==
    (pc # "parse" /\ WellFormed(line) /\ Resolvable(line)) =>
        /\ parsed.outcome = "ok"
        /\ \A fld \in FieldNames :
               IF InIntRange(FieldText(line, fld))
               THEN Writes(FieldText(line, fld), parsed.block[fld])
               ELSE parsed.block[fld] = 0

\* C6 amended: as stated, except that a field whose digits run out of range is
\* stored as the nearest bound of int: the largest int, or the smallest one
\* after a minus sign.
C6_ZeroOrNearestBound ==
    (pc # "parse" /\ WellFormed(line) /\ Resolvable(line)) =>
        /\ parsed.outcome = "ok"
        /\ \A fld \in FieldNames :
               LET t == FieldText(line, fld) IN
               IF InIntRange(t) THEN Writes(t, parsed.block[fld])
               ELSE IF Overflows(t)
                    THEN parsed.block[fld] = IF Negative(t) THEN MinInt ELSE MaxInt
               ELSE parsed.block[fld] = 0

C6_Witness ==
    /\ pc = "parsed" /\ WellFormed(line) /\ parsed.outcome = "ok"
    /\ FieldText(line, "endLine") = <<"9", "9">>
    /\ parsed.block.endLine = MaxInt
    /\ parsed.block.startLine = 1

----------------------------------------------------------------------------
(* SpecEmit: lcov on a grouping.                                           *)

FileA == <<"a">>
FileB == <<"b">>
Hits == {0, 2}

EmitBlocks ==
    {[startLine |-> s, startChar |-> 1, endLine |-> e, endChar |-> 1,
      statements |-> 1, covered |-> c] :
        s \in 1..MaxLine, e \in 0..MaxLine, c \in Hits}

RECURSIVE SeqsOfLen(_, _)
SeqsOfLen(S, n) ==
    IF n = 0 THEN {<<>>}
    ELSE {Append(q, x) : q \in SeqsOfLen(S, n - 1), x \in S}

\* The grouping that holds the blocks qa under one file and qb under another:
\* no key without a block.
Grouping(qa, qb) ==
    [f \in (IF qa = <<>> THEN {} ELSE {FileA}) \cup (IF qb = <<>> THEN {} ELSE {FileB})
        |-> IF f = FileA THEN qa ELSE qb]

InitEmit ==
    /\ gopath = <<>> /\ fsDirs = {} /\ fsFiles = {}
    /\ ResolverIdle /\ ParserIdle /\ LocatorIdle
    /\ input = <<>> /\ scanned = <<>>
    /\ \E na \in 0..MaxBlocks : \E nb \in 0..(MaxBlocks - na) :
           \E qa \in SeqsOfLen(EmitBlocks, na), qb \in SeqsOfLen(EmitBlocks, nb) :
               blocks = Grouping(qa, qb)
    /\ todo = DOMAIN blocks
    /\ cur = <<>> /\ bi = 0 /\ i = 0 /\ total = 0 /\ covered = 0
    /\ buf = <<>> /\ sink = <<>> /\ sinkWrites = 0 /\ flushes = 0
    /\ pc = "range"

NextEmit == lcov

SpecEmit == InitEmit /\ [][NextEmit]_vars

\* The report written so far, as the lines of text a reader of it sees.
Output == sink \o buf
OutLines == LET segs == Split(Output, "\n") IN Take(segs, Len(segs) - 1)

\* The lines of the record of file f among the lines ls: those after its SF
\* line, up to the end_of_record line that follows.
RecordBody(ls, f) ==
    LET sf == CHOOSE n \in 1..Len(ls) : ls[n] = SF \o f
        end == CHOOSE n \in (sf + 1)..Len(ls) :
                   /\ ls[n] = EndOfRecord
                   /\ \A m \in (sf + 1)..(n - 1) : ls[m] # EndOfRecord
    IN  SubSeq(ls, sf + 1, end - 1)
IsDA(l) == HasPrefix(l, DA)
DALines(ls, f) == SelectSeq(RecordBody(ls, f), IsDA)

\* The files whose record is complete.
Emitted == IF pc \in {"range", "done"} THEN DOMAIN blocks \ todo ELSE {}

\* The DA lines a block stands for: one per line number from startLine through
\* endLine, in ascending order, each with the block's hit count.
BlockDA(b) ==
    [k \in 1..(IF b.startLine <= b.endLine THEN b.endLine - b.startLine + 1 ELSE 0)
        |-> DA \o Itoa(b.startLine + k - 1) \o <<",">> \o Itoa(b.covered)]

\* C1: in every record written, each block with startLine <= endLine contributes
\* endLine - startLine + 1 DA lines, one per line number in ascending order with
\* the block's hitCount, and the blocks' DA lines follow each other in parse order.
C1_BlockExpansion ==
    LET ls == OutLines IN
    \A f \in Emitted :
        /\ Count(ls, SF \o f) = 1
        /\ DALines(ls, f) = Concat([k \in 1..Len(blocks[f]) |-> BlockDA(blocks[f][k])])

C1_Witness ==
    /\ pc = "done"
    /\ \E f \in DOMAIN blocks :
           /\ Len(blocks[f]) = 2
           /\ blocks[f][1].startLine < blocks[f][1].endLine
           /\ blocks[f][1].covered # blocks[f][2].covered
           /\ blocks[f][2].startLine = blocks[f][2].endLine
           /\ Len(DALines(OutLines, f)) = 3

\* The hit count a DA line carries.
DACount(l) == Atoi(After(l, ","))
HitLines(das) == {k \in 1..Len(das) : DACount(das[k]) > 0}

\* C2: in every record LF is the number of DA lines of the record and LH the
\* number of those that carry a hit count above zero; a line number covered by
\* two blocks is there twice and counted twice; 0 <= LH <= LF.
C2_Totals ==
    LET ls == OutLines IN
    \A f \in Emitted :
        LET body == RecordBody(ls, f)
            das == SelectSeq(body, IsDA)
            hit == Cardinality(HitLines(das))
        IN  /\ Len(body) = Len(das) + 2
            /\ body[Len(body) - 1] = LF \o Itoa(Len(das))
            /\ body[Len(body)] = LH \o Itoa(hit)
            /\ hit <= Len(das)

C2_Witness ==
    /\ pc = "done"
    /\ \E f \in DOMAIN blocks :
           LET body == RecordBody(OutLines, f)
               das == SelectSeq(body, IsDA)
           IN  /\ Len(blocks[f]) = 2
               /\ blocks[f][1] = blocks[f][2]
               /\ blocks[f][1].covered > 0
               /\ blocks[f][1].startLine < blocks[f][1].endLine
               /\ \E m, n \in 1..Len(das) : m # n /\ das[m] = das[n]
               /\ body[Len(body)] = LH \o <<"4">>

\* C8 as stated: the sink receives no byte before every record is written, and
\* is handed the buffer exactly once, at the end.
C8_NothingBeforeFlush ==
    /\ pc # "done" => sink = <<>>
    /\ sinkWrites <= 1

\* C8 amended: lcov flushes exactly once, at the end, after which the sink holds
\* the whole report; before that the sink holds nothing as long as the report
\* written so far fits into the writer's buffer, and only whole buffers once it
\* no longer does.
C8_FlushedOnceAtEnd ==
    /\ Len(buf) <= BufSize
    /\ flushes = (IF pc = "done" THEN 1 ELSE 0)
    /\ pc = "done" => buf = <<>>
    /\ pc # "done" =>
           /\ Len(sink) = BufSize * sinkWrites
           /\ Len(Output) <= BufSize => sink = <<>>
    /\ (pc = "done" /\ Len(Output) <= BufSize) => sinkWrites <= 1

C8_Witness ==
    /\ pc = "done"
    /\ sinkWrites = 1
    /\ Cardinality(DOMAIN blocks) = 1
    /\ Len(sink) > 0

----------------------------------------------------------------------------
(* Spec: the whole run, parseCoverage on an input stream and then lcov.    *)

\* parseCoverage: the scanner delivers the next line to parseCoverageLine; a
\* line that comes back ok is appended under its path.
Scan ==
    /\ pc = "scan"
    /\ input # <<>>
    /\ LET r == parseCoverageLine(Head(input), pkgCache)
       IN  /\ scanned' = Append(scanned, [line |-> Head(input), outcome |-> r.outcome,
                                          file |-> r.file, block |-> r.block])
           /\ pkgCache' = r.cache
           /\ imports' = imports \o r.imported
           /\ blocks' = IF r.outcome # "ok" THEN blocks
                        ELSE IF r.file \in DOMAIN blocks
                             THEN [blocks EXCEPT ![r.file] = Append(@, r.block)]
                        ELSE blocks @@ (r.file :> <<r.block>>)
           /\ pc' = IF r.outcome = "panic" THEN "panicked" ELSE "scan"
    /\ input' = Tail(input)
    /\ UNCHANGED <<EnvVars, ParserVars, LocatorVars, EmitVars, log>>

\* parseCoverage: the input is at its end; main hands the grouping to lcov.
ScanEnd ==
    /\ pc = "scan"
    /\ input = <<>>
    /\ todo' = DOMAIN blocks
    /\ pc' = "range"
    /\ UNCHANGED <<EnvVars, ResolverVars, ParserVars, LocatorVars, ScanVars,
                   cur, bi, i, total, covered, buf, sink, sinkWrites, flushes>>

\* parseCoverage: the scanner stops on a read error; log.Fatal ends the process.
ScanFail ==
    /\ pc = "scan"
    /\ pc' = "fatal"
    /\ UNCHANGED <<EnvVars, ResolverVars, ParserVars, LocatorVars, ScanVars, EmitVars>>

parseCoverage == Scan \/ ScanEnd \/ ScanFail

Txt(ref, sl, el, cnt) ==
    Concat(Pieces(ref, <<sl, <<"1">>, el, <<"1">>, <<"1">>, cnt>>))

\* A header, blocks of two files of package p and of a file of package r, a
\* line of the missing package q, a line without its colon, a line whose start
\* has no period.
SampleLines ==
    {ModePrefix \o <<" ", "s", "e", "t">>,
     Txt(<<"p", "/", "a">>, <<"1">>, <<"2">>, <<"1">>),
     Txt(<<"p", "/", "b">>, <<"2">>, <<"2">>, <<"0">>),
     Txt(<<"r", "/", "a">>, <<"1">>, <<"1">>, <<"2">>),
     Txt(<<"q", "/", "a">>, <<"1">>, <<"1">>, <<"1">>),
     Concat([Pieces(<<"p", "/", "a">>, Ones) EXCEPT ![2] = <<" ">>]),
     Concat([Pieces(<<"p", "/", "a">>, Ones) EXCEPT ![4] = <<>>])}

Init ==
    /\ gopath = SampleGopath
    /\ fsDirs = {<<"/", "a", "/", ".", "g", "i", "t">>}
    /\ fsFiles = {}
    /\ ResolverIdle /\ ParserIdle /\ LocatorIdle /\ EmitIdle
    /\ input \in UNION {SeqsOfLen(SampleLines, n) : n \in 0..MaxLines}
    /\ scanned = <<>>
    /\ blocks = <<>>
    /\ pc = "scan"

Next == parseCoverage \/ lcov

Spec == Init /\ [][Next]_vars

\* The blocks of the accepted lines whose path is f, in the order of the input.
AcceptedUnder(f) ==
    LET Is(r) == r.outcome = "ok" /\ r.file = f
        hits == SelectSeq(scanned, Is)
    IN  [k \in 1..Len(hits) |-> hits[k].block]

\* C7: no line keeps the lines after it from being processed, and once the
\* input is consumed the grouping holds one block per accepted line, under that
\* line's path and in input order, and nothing for any other line.
C7_OneBlockPerAcceptedLine ==
    /\ pc # "panicked"
    /\ pc \notin {"scan", "fatal"} =>
           /\ input = <<>>
           /\ DOMAIN blocks = {scanned[k].file : k \in {n \in 1..Len(scanned) :
                                                   scanned[n].outcome = "ok"}}
           /\ \A f \in DOMAIN blocks : blocks[f] = AcceptedUnder(f)

\* The grouping is as C7 says in every run that no line aborts.
GroupingUnlessAborted ==
    (pc \notin {"scan", "fatal", "panicked"}) =>
        /\ input = <<>>
        /\ DOMAIN blocks = {scanned[k].file : k \in {n \in 1..Len(scanned) :
                                                scanned[n].outcome = "ok"}}
        /\ \A f \in DOMAIN blocks : blocks[f] = AcceptedUnder(f)

=============================================================================
